---- MODULE Spec2Model ----
(***************************************************************************)
(* A model of bimap (src/bimap.h) over the intrusive treap bitree          *)
(* (src/intrusive_tree.h).                                                 *)
(*                                                                         *)
(* Memory is one function `mem` from addresses to p_node / d_node cells.   *)
(* A bimap object s occupies two cells, the fake_node of its left_map and  *)
(* the fake_node of its right_map; a node_t record occupies RecSize cells, *)
(* its left_node_t base at offset OffLeft and its right_node_t base at     *)
(* offset OffRight.  Pointers are addresses, NULL is 0, and the casts      *)
(* between node_t and its two bases are address arithmetic.                *)
(***************************************************************************)
EXTENDS Integers, FiniteSets, Sequences

\* ---------------------------------------------------------------- bounds
NStores == 2      \* bimap objects that may exist at a time
MaxRec == 3       \* node_t records the heap can hold
MaxKey == 2       \* one bimap: keys of either side are 0..MaxKey
MaxPr == 1        \* one bimap: priorities drawn by rand_gen() are 0..MaxPr
MaxKeyS == 1      \* several bimaps: keys of either side are 0..MaxKeyS
MaxPrS == 0       \* several bimaps: priorities are 0..MaxPrS
MaxPrD == 2       \* one bimap, inserts and erases only: priorities are 0..MaxPrD
MaxLive == 2      \* several bimaps: node_t records alive at a time
MaxCount == 2     \* copy construction is explored from sources with pair_count <= MaxCount

\* ------------------------------------------------------- program constants
NULL == 0
OffLeft == 0      \* offset of the left_node_t base in node_t
OffRight == 1     \* offset of the right_node_t base in node_t
RecSize == 2      \* cells of one node_t
MaxInt32 == 2147483647
DefaultKey == 0   \* left_t{} / right_t{}

\* the outcome of a failed assert(parent) / of a walk off the tree
ABORT == -1
\* the std::out_of_range thrown by at_left / at_right
OutOfRange == -2

Stores == 1..NStores
Keys == 0..MaxKey
Priorities == 0..MaxPr
KeysS == 0..MaxKeyS
PrioritiesS == 0..MaxPrS
PrioritiesD == 0..MaxPrD

LFake(s) == RecSize * s              \* &s.left_map.fake_node
RFake(s) == RecSize * s + OffRight   \* &s.right_map.fake_node
HeapBase == RecSize * (NStores + 1)
RecAddrs == {HeapBase + RecSize * i : i \in 0..(MaxRec - 1)}
FakeAddrs == {LFake(s) : s \in Stores} \cup {RFake(s) : s \in Stores}
Addrs == FakeAddrs \cup {a + OffLeft : a \in RecAddrs} \cup {a + OffRight : a \in RecAddrs}

\* A cell that holds no object (never constructed, destroyed, or freed).
FreeCell == [left |-> NULL, right |-> NULL, parent |-> NULL]
\* p_node{}: the member initialisers of p_node
p_node == [left |-> NULL, right |-> NULL, parent |-> NULL]
\* d_node(key): p_node{} plus key and the priority drawn by rand_gen()
d_node(key, priority) ==
    [left |-> NULL, right |-> NULL, parent |-> NULL, key |-> key, pr |-> priority]

VARIABLES
    mem,         \* [Addrs -> cell]
    constructed, \* the bimap objects that exist
    allocated,   \* addresses of the node_t records that are new'ed and not deleted
    pair_count,  \* [Stores -> uint32 as the signed reading of its 32 bits]
    last         \* the last operation: its name, store, arguments and result

vars == <<mem, constructed, allocated, pair_count, last>>

\* ------------------------------------------------------------ uint32_t
\* pair_count is uint32_t; the model holds the value v as v when v < 2^31 and as
\* v - 2^32 otherwise, so that ++ and -- wrap as the 32-bit counter does.
U32Inc(x) == IF x = MaxInt32 THEN (-MaxInt32) - 1 ELSE x + 1
U32Dec(x) == IF x = (-MaxInt32) - 1 THEN MaxInt32 ELSE x - 1

\* ------------------------------------------------------------ casts
\* static_cast<left_node_t*>(node_t*), static_cast<right_node_t*>(node_t*)
ToLeftBase(node) == node + OffLeft
ToRightBase(node) == node + OffRight
\* static_cast<node_t const*>(left_node_t const*), ...(right_node_t const*)
FromLeftBase(p) == p - OffLeft
FromRightBase(p) == p - OffRight

\* ------------------------------------------------------------ evaluation
\* F(v), with v evaluated once: the operators below hand memories on to each other
\* and to the statements after them, as the code's statements run in sequence.
Then(v, F(_)) == CHOOSE y \in {F(x) : x \in {v}} : TRUE

\* ------------------------------------------------------------ bitree
cmp(a, b) == a < b

Slot(p, f) == [p |-> p, f |-> f]
Get(m, slot) == m[slot.p][slot.f]
Set(m, slot, v) == [m EXCEPT ![slot.p][slot.f] = v]

update_parent(m, node, parent) ==
    IF node # NULL THEN [m EXCEPT ![node].parent = parent] ELSE m

\* update_parent(p->f, p) for the child field f of p
update_child(m0, p, f) == Then(m0, LAMBDA m : update_parent(m, m[p][f], p))

\* p_node::isLeft, for a node whose parent is set
isLeft(m, n) == m[m[n].parent].left = n

RECURSIVE leftmost(_, _)
leftmost(m, n) == IF m[n].left # NULL THEN leftmost(m, m[n].left) ELSE n

RECURSIVE rightmost(_, _)
rightmost(m, n) == IF m[n].right # NULL THEN rightmost(m, m[n].right) ELSE n

\* the loop `while (!it_node->isLeft()) it_node = it_node->parent`
RECURSIVE climb_right(_, _)
climb_right(m, n) ==
    IF m[n].parent = NULL THEN ABORT
    ELSE IF isLeft(m, n) THEN n
    ELSE climb_right(m, m[n].parent)

\* the loop `while (it_node->isLeft()) it_node = it_node->parent`
RECURSIVE climb_left(_, _)
climb_left(m, n) ==
    IF m[n].parent = NULL THEN ABORT
    ELSE IF isLeft(m, n) THEN climb_left(m, m[n].parent)
    ELSE n

\* operator++ without the climb: from a node with no right child straight to its parent
Inc_no_climb(m, n) ==
    IF m[n].right # NULL THEN leftmost(m, m[n].right) ELSE m[n].parent

\* iterator::operator++
Inc(m, n) ==
    IF m[n].right # NULL THEN leftmost(m, m[n].right)
    ELSE Then(climb_right(m, n), LAMBDA c : IF c = ABORT THEN ABORT ELSE m[c].parent)

\* iterator::operator--
Dec(m, n) ==
    IF m[n].left # NULL THEN rightmost(m, m[n].left)
    ELSE Then(climb_left(m, n), LAMBDA c : IF c = ABORT THEN ABORT ELSE m[c].parent)

\* bitree::begin, bitree::end
begin(m, fake) == leftmost(m, fake)
end(fake) == fake

RECURSIVE find_from(_, _, _, _)
find_from(m, fake, n, x) ==
    IF n = NULL THEN end(fake)
    ELSE IF cmp(x, m[n].key) THEN find_from(m, fake, m[n].left, x)
    ELSE IF cmp(m[n].key, x) THEN find_from(m, fake, m[n].right, x)
    ELSE n

\* bitree::empty
tree_empty(m, fake) == m[fake].left = NULL

\* bitree::find
find(m, fake, x) == find_from(m, fake, m[fake].left, x)

\* lower_bound's loop with the test of upper_bound: a node is kept only when x is
\* less than its key
RECURSIVE lower_bound_from_strict(_, _, _, _)
lower_bound_from_strict(m, n, buf, x) ==
    IF n = NULL THEN buf
    ELSE IF cmp(x, m[n].key) THEN lower_bound_from_strict(m, m[n].left, n, x)
    ELSE lower_bound_from_strict(m, m[n].right, buf, x)

\* the loop of bitree::lower_bound: buf is the last node not less than x
RECURSIVE lower_bound_from(_, _, _, _)
lower_bound_from(m, n, buf, x) ==
    IF n = NULL THEN buf
    ELSE IF ~cmp(m[n].key, x) THEN lower_bound_from(m, m[n].left, n, x)
    ELSE lower_bound_from(m, m[n].right, buf, x)

\* bitree::lower_bound
lower_bound(m, fake, x) == lower_bound_from(m, m[fake].left, fake, x)

\* the loop of bitree::upper_bound: buf is the last node greater than x
RECURSIVE upper_bound_from(_, _, _, _)
upper_bound_from(m, n, buf, x) ==
    IF n = NULL THEN buf
    ELSE IF cmp(x, m[n].key) THEN upper_bound_from(m, m[n].left, n, x)
    ELSE upper_bound_from(m, m[n].right, buf, x)

\* bitree::upper_bound
upper_bound(m, fake, x) == upper_bound_from(m, m[fake].left, fake, x)

\* bitree::split; the results l and r are returned instead of stored through
\* the reference parameters
RECURSIVE split(_, _, _)
split(m, t, key) ==
    IF t = NULL THEN [m |-> m, l |-> NULL, r |-> NULL]
    ELSE IF cmp(key, m[t].key) THEN
        Then(split(m, m[t].left, key), LAMBDA s :
             [m |-> update_child([s.m EXCEPT ![t].left = s.r], t, "left"),
              l |-> s.l, r |-> t])
    ELSE
        Then(split(m, m[t].right, key), LAMBDA s :
             [m |-> update_child([s.m EXCEPT ![t].right = s.l], t, "right"),
              l |-> t, r |-> s.r])

\* the recursive insert with the priority test turned round: the new node goes on
\* top of a node of greater priority
RECURSIVE insert_at_below_lower(_, _, _)
insert_at_below_lower(m, slot, it) ==
    LET t == Get(m, slot) IN
    IF t = NULL THEN Set(m, slot, it)
    ELSE
        Then([m EXCEPT ![it].parent = m[t].parent], LAMBDA m0 :
             IF m0[it].pr < m0[t].pr THEN
                 Then(split(m0, t, m0[it].key), LAMBDA s :
                      Set(update_child(update_child(
                              [s.m EXCEPT ![it].left = s.l, ![it].right = s.r],
                              it, "left"), it, "right"),
                          slot, it))
             ELSE IF cmp(m0[it].key, m0[t].key) THEN
                 update_child(insert_at_below_lower(m0, Slot(t, "left"), it), t, "left")
             ELSE
                 update_child(insert_at_below_lower(m0, Slot(t, "right"), it), t, "right"))

\* bitree::insert(p_node*& t, p_node* it); t is the slot the reference names.
\* Every path returns an iterator to `it`, so only the memory is returned.
RECURSIVE insert_at(_, _, _)
insert_at(m, slot, it) ==
    LET t == Get(m, slot) IN
    IF t = NULL THEN Set(m, slot, it)
    ELSE
        Then([m EXCEPT ![it].parent = m[t].parent], LAMBDA m0 :
             IF m0[it].pr > m0[t].pr THEN
                 Then(split(m0, t, m0[it].key), LAMBDA s :
                      Set(update_child(update_child(
                              [s.m EXCEPT ![it].left = s.l, ![it].right = s.r],
                              it, "left"), it, "right"),
                          slot, it))
             ELSE IF cmp(m0[it].key, m0[t].key) THEN
                 update_child(insert_at(m0, Slot(t, "left"), it), t, "left")
             ELSE
                 update_child(insert_at(m0, Slot(t, "right"), it), t, "right"))

\* bitree::insert(d_node* x)
tree_insert(m, fake, x) ==
    [m |-> update_child(insert_at(m, Slot(fake, "left"), x), fake, "left"), ret |-> x]

\* merge without the update_parent calls: a subtree hung under l or r keeps the
\* parent it had
RECURSIVE merge_no_update_parent(_, _, _, _)
merge_no_update_parent(m, slot, l, r) ==
    IF l = NULL \/ r = NULL THEN Set(m, slot, IF l # NULL THEN l ELSE r)
    ELSE IF m[l].pr > m[r].pr THEN
        Set(merge_no_update_parent(m, Slot(l, "right"), m[l].right, r), slot, l)
    ELSE
        Set(merge_no_update_parent(m, Slot(r, "left"), l, m[r].left), slot, r)

\* merge with the priority test turned round: the lower priority goes on top
RECURSIVE merge_lower_on_top(_, _, _, _)
merge_lower_on_top(m, slot, l, r) ==
    IF l = NULL \/ r = NULL THEN Set(m, slot, IF l # NULL THEN l ELSE r)
    ELSE IF m[l].pr < m[r].pr THEN
        Set(update_child(merge_lower_on_top(m, Slot(l, "right"), m[l].right, r), l, "right"),
            slot, l)
    ELSE
        Set(update_child(merge_lower_on_top(m, Slot(r, "left"), l, m[r].left), r, "left"),
            slot, r)

\* bitree::merge(p_node*& t, p_node* l, p_node* r)
RECURSIVE merge(_, _, _, _)
merge(m, slot, l, r) ==
    IF l = NULL \/ r = NULL THEN Set(m, slot, IF l # NULL THEN l ELSE r)
    ELSE IF m[l].pr > m[r].pr THEN
        Set(update_child(merge(m, Slot(l, "right"), m[l].right, r), l, "right"), slot, l)
    ELSE
        Set(update_child(merge(m, Slot(r, "left"), l, m[r].left), r, "left"), slot, r)

\* erase that returns the iterator it was given: the `++it` is left out
tree_erase_no_advance(m, it) ==
    LET element == it
        elem_parent == m[element].parent
    IN IF isLeft(m, element) THEN
           [m |-> update_child(merge(m, Slot(elem_parent, "left"),
                                     m[element].left, m[element].right),
                               elem_parent, "left"),
            ret |-> it]
       ELSE
           [m |-> update_child(merge(m, Slot(elem_parent, "right"),
                                     m[element].left, m[element].right),
                               elem_parent, "right"),
            ret |-> it]

\* erase without the update_parent calls after merge
tree_erase_no_update_parent(m, it) ==
    LET element == it
        elem_parent == m[element].parent
    IN IF isLeft(m, element) THEN
           [m |-> merge(m, Slot(elem_parent, "left"), m[element].left, m[element].right),
            ret |-> Inc(m, it)]
       ELSE
           [m |-> merge(m, Slot(elem_parent, "right"), m[element].left, m[element].right),
            ret |-> Inc(m, it)]

\* bitree::erase(iterator it), for an iterator to a linked node
tree_erase(m, it) ==
    LET element == it
        elem_parent == m[element].parent
    IN IF isLeft(m, element) THEN
           [m |-> update_child(merge(m, Slot(elem_parent, "left"),
                                     m[element].left, m[element].right),
                               elem_parent, "left"),
            ret |-> Inc(m, it)]
       ELSE
           [m |-> update_child(merge(m, Slot(elem_parent, "right"),
                                     m[element].left, m[element].right),
                               elem_parent, "right"),
            ret |-> Inc(m, it)]

\* ------------------------------------------------------------ bimap
\* The part of the state an operation works on.
State(m, al, pc) == [mem |-> m, allocated |-> al, pair_count |-> pc]

\* flip that casts back to the base it came from
flip_left_same_base(m, it) ==
    IF m[it].parent = NULL THEN ABORT ELSE ToLeftBase(FromLeftBase(it))

\* left_iterator::flip, right_iterator::flip: get_data() asserts the node has a
\* parent, then casts to node_t and to the other base
flip_left(m, it) ==
    IF m[it].parent = NULL THEN ABORT ELSE ToRightBase(FromLeftBase(it))
flip_right(m, it) ==
    IF m[it].parent = NULL THEN ABORT ELSE ToLeftBase(FromRightBase(it))

begin_left(S, s) == begin(S.mem, LFake(s))
end_left(s) == end(LFake(s))
begin_right(S, s) == begin(S.mem, RFake(s))
end_right(s) == end(RFake(s))
find_left(S, s, left) == find(S.mem, LFake(s), left)
find_right(S, s, right) == find(S.mem, RFake(s), right)
size(S, s) == S.pair_count[s]

\* operator* of left_iterator / right_iterator
deref(m, it) == IF it = ABORT \/ m[it].parent = NULL THEN ABORT ELSE m[it].key

\* operator new: the lowest free record
NewAddr(al) == CHOOSE a \in RecAddrs \ al : \A b \in RecAddrs \ al : a <= b

\* ++pair_count, --pair_count of bimap s
inc_count(S, s) == State(S.mem, S.allocated, [S.pair_count EXCEPT ![s] = U32Inc(@)])
dec_count(S, s) == State(S.mem, S.allocated, [S.pair_count EXCEPT ![s] = U32Dec(@)])

\* new node_t(left, right); pl and pr are the priorities rand_gen() gives the
\* left_node_t and the right_node_t base
new_node(S, node, left, right, pl, pr) ==
    State([S.mem EXCEPT ![ToLeftBase(node)] = d_node(left, pl),
                        ![ToRightBase(node)] = d_node(right, pr)],
          S.allocated \cup {node}, S.pair_count)

\* insert that looks for a duplicate on the left side only
insert_left_check_only(S, s, left, right, pl, pr) ==
    IF find(S.mem, LFake(s), left) = end(LFake(s))
    THEN
        Then(NewAddr(S.allocated), LAMBDA node :
        Then(new_node(S, node, left, right, pl, pr), LAMBDA S0 :
        Then(tree_insert(S0.mem, RFake(s), ToRightBase(node)), LAMBDA r1 :
        Then(tree_insert(r1.m, LFake(s), ToLeftBase(node)), LAMBDA r2 :
             [S |-> inc_count(State(r2.m, S0.allocated, S0.pair_count), s),
              ret |-> r2.ret]))))
    ELSE [S |-> S, ret |-> end(LFake(s))]

\* insert that rejects only when both sides collide: || in place of &&
insert_either_free(S, s, left, right, pl, pr) ==
    IF find(S.mem, LFake(s), left) = end(LFake(s))
       \/ find(S.mem, RFake(s), right) = end(RFake(s))
    THEN
        Then(NewAddr(S.allocated), LAMBDA node :
        Then(new_node(S, node, left, right, pl, pr), LAMBDA S0 :
        Then(tree_insert(S0.mem, RFake(s), ToRightBase(node)), LAMBDA r1 :
        Then(tree_insert(r1.m, LFake(s), ToLeftBase(node)), LAMBDA r2 :
             [S |-> inc_count(State(r2.m, S0.allocated, S0.pair_count), s),
              ret |-> r2.ret]))))
    ELSE [S |-> S, ret |-> end(LFake(s))]

\* bimap::insert(left, right)
insert(S, s, left, right, pl, pr) ==
    IF find(S.mem, LFake(s), left) = end(LFake(s))
       /\ find(S.mem, RFake(s), right) = end(RFake(s))
    THEN
        Then(NewAddr(S.allocated), LAMBDA node :
        Then(new_node(S, node, left, right, pl, pr), LAMBDA S0 :
        Then(tree_insert(S0.mem, RFake(s), ToRightBase(node)), LAMBDA r1 :
        Then(tree_insert(r1.m, LFake(s), ToLeftBase(node)), LAMBDA r2 :
             [S |-> inc_count(State(r2.m, S0.allocated, S0.pair_count), s),
              ret |-> r2.ret]))))
    ELSE [S |-> S, ret |-> end(LFake(s))]

\* delete of a node_t: the record is returned to the heap
delete(S, node) ==
    State([S.mem EXCEPT ![ToLeftBase(node)] = FreeCell, ![ToRightBase(node)] = FreeCell],
          S.allocated \ {node}, S.pair_count)

\* bimap::erase_left(left_iterator it), for an iterator to an element of s
erase_left(S, s, it) ==
    Then(tree_erase(S.mem, it), LAMBDA r1 :
    Then(tree_erase(r1.m, flip_left(r1.m, it)), LAMBDA r2 :
         [S |-> dec_count(delete(State(r2.m, S.allocated, S.pair_count),
                                 FromLeftBase(it)), s),
          ret |-> r1.ret]))

\* bimap::erase_right(right_iterator it), for an iterator to an element of s
erase_right(S, s, it) ==
    Then(tree_erase(S.mem, it), LAMBDA r1 :
    Then(tree_erase(r1.m, flip_right(r1.m, it)), LAMBDA r2 :
         [S |-> dec_count(delete(State(r2.m, S.allocated, S.pair_count),
                                 FromRightBase(it)), s),
          ret |-> r1.ret]))

\* bimap::erase_left(left_t const&)
erase_left_key(S, s, left) ==
    Then(find_left(S, s, left), LAMBDA it :
         IF it = end_left(s) THEN [S |-> S, ret |-> FALSE]
         ELSE [S |-> erase_left(S, s, it).S, ret |-> TRUE])

\* bimap::erase_right(right_t const&)
erase_right_key(S, s, right) ==
    Then(find_right(S, s, right), LAMBDA it :
         IF it = end_right(s) THEN [S |-> S, ret |-> FALSE]
         ELSE [S |-> erase_right(S, s, it).S, ret |-> TRUE])

\* the loop `for (auto it = first; it != last;) erase_left(it++)`
RECURSIVE erase_left_loop(_, _, _, _)
erase_left_loop(S, s, it, lst) ==
    IF it = lst \/ it = ABORT THEN S
    ELSE Then(Inc(S.mem, it), LAMBDA nxt :
         Then(erase_left(S, s, it).S, LAMBDA S1 : erase_left_loop(S1, s, nxt, lst)))

RECURSIVE erase_right_loop(_, _, _, _)
erase_right_loop(S, s, it, lst) ==
    IF it = lst \/ it = ABORT THEN S
    ELSE Then(Inc(S.mem, it), LAMBDA nxt :
         Then(erase_right(S, s, it).S, LAMBDA S1 : erase_right_loop(S1, s, nxt, lst)))

\* bimap::erase_left(first, last), bimap::erase_right(first, last)
erase_left_range(S, s, first, lst) ==
    [S |-> erase_left_loop(S, s, first, lst), ret |-> lst]
erase_right_range(S, s, first, lst) ==
    [S |-> erase_right_loop(S, s, first, lst), ret |-> lst]

\* bimap::erase_all
erase_all(S, s) == erase_left_loop(S, s, begin_left(S, s), end_left(s))

\* at_left that answers the default value for an absent key
at_left_default(S, s, key) ==
    Then(find_left(S, s, key), LAMBDA it :
         IF it = end_left(s) THEN DefaultKey ELSE deref(S.mem, flip_left(S.mem, it)))

\* bimap::at_left, bimap::at_right
at_left(S, s, key) ==
    Then(find_left(S, s, key), LAMBDA it :
         IF it = end_left(s) THEN OutOfRange ELSE deref(S.mem, flip_left(S.mem, it)))
at_right(S, s, key) ==
    Then(find_right(S, s, key), LAMBDA it :
         IF it = end_right(s) THEN OutOfRange ELSE deref(S.mem, flip_right(S.mem, it)))

\* bimap::at_left_or_default, bimap::at_right_or_default
at_left_or_default(S, s, key, pl, pr) ==
    Then(find_left(S, s, key), LAMBDA it :
         IF it = end_left(s) THEN
             LET new_elem == DefaultKey IN
             Then(erase_right_key(S, s, new_elem).S, LAMBDA S1 :
             Then(insert(S1, s, key, new_elem, pl, pr), LAMBDA r :
                  [S |-> r.S,
                   ret |-> IF r.ret = end_left(s) THEN ABORT
                           ELSE deref(r.S.mem, flip_left(r.S.mem, r.ret))]))
         ELSE [S |-> S, ret |-> deref(S.mem, flip_left(S.mem, it))])

at_right_or_default(S, s, key, pl, pr) ==
    Then(find_right(S, s, key), LAMBDA it :
         IF it = end_right(s) THEN
             LET new_elem == DefaultKey IN
             Then(erase_left_key(S, s, new_elem).S, LAMBDA S1 :
             Then(insert(S1, s, new_elem, key, pl, pr), LAMBDA r :
                  [S |-> r.S, ret |-> deref(r.S.mem, r.ret)]))
         ELSE [S |-> S, ret |-> deref(S.mem, flip_right(S.mem, it))])

\* bimap::lower_bound_left, upper_bound_left, lower_bound_right, upper_bound_right
lower_bound_left(S, s, left) == lower_bound(S.mem, LFake(s), left)
upper_bound_left(S, s, left) == upper_bound(S.mem, LFake(s), left)
lower_bound_right(S, s, right) == lower_bound(S.mem, RFake(s), right)
upper_bound_right(S, s, right) == upper_bound(S.mem, RFake(s), right)

\* the loop of operator==: both iterators step in L-order until one reaches its end
RECURSIVE equal_loop(_, _, _, _, _)
equal_loop(S, a, b, it_a, it_b) ==
    IF it_a # end_left(a) /\ it_b # end_left(b) THEN
        IF deref(S.mem, it_a) # deref(S.mem, it_b)
           \/ deref(S.mem, flip_left(S.mem, it_a)) # deref(S.mem, flip_left(S.mem, it_b))
        THEN FALSE
        ELSE equal_loop(S, a, b, Inc(S.mem, it_a), Inc(S.mem, it_b))
    ELSE TRUE

\* operator==(bimap const& a, bimap const& b), operator!=
equal(S, a, b) ==
    IF size(S, a) # size(S, b) THEN FALSE
    ELSE equal_loop(S, a, b, begin_left(S, a), begin_left(S, b))
not_equal(S, a, b) == ~equal(S, a, b)

\* bimap::empty: `aborted` says that one of its two assertions failed, `value` is
\* what it returns otherwise
empty(S, s) ==
    [aborted |-> ~(/\ tree_empty(S.mem, LFake(s)) = tree_empty(S.mem, RFake(s))
                   /\ tree_empty(S.mem, LFake(s)) = (S.pair_count[s] = 0)),
     value |-> tree_empty(S.mem, LFake(s))]

\* bimap::insert_from: the loop over other in L-order; prs holds the priorities
\* rand_gen() gives the records, in the order they are created
RECURSIVE insert_from_loop(_, _, _, _, _)
insert_from_loop(S, s, other, it, prs) ==
    IF it = end_left(other) \/ it = ABORT \/ prs = <<>> THEN S
    ELSE Then(insert(S, s, deref(S.mem, it), deref(S.mem, flip_left(S.mem, it)),
                     Head(prs)[1], Head(prs)[2]).S, LAMBDA S1 :
         Then(Inc(S1.mem, it), LAMBDA nxt :
              insert_from_loop(S1, s, other, nxt, Tail(prs))))

insert_from(S, s, other, prs) == insert_from_loop(S, s, other, begin_left(S, other), prs)

\* bimap(): both trees empty, pair_count = 0
bimap_default(S, s) ==
    State([S.mem EXCEPT ![LFake(s)] = p_node, ![RFake(s)] = p_node],
          S.allocated, [S.pair_count EXCEPT ![s] = 0])

\* bimap(bimap const& other)
bimap_copy(S, s, other, prs) ==
    insert_from(State([S.mem EXCEPT ![LFake(s)] = p_node, ![RFake(s)] = p_node],
                      S.allocated, [S.pair_count EXCEPT ![s] = S.pair_count[other]]),
                s, other, prs)

\* move construction that forgets update_parent: the root keeps pointing at the
\* sentinel of the tree it came from
bitree_move_no_update_parent(m, fake, other) ==
    [m EXCEPT ![fake] = m[other], ![other] = p_node]

\* bitree(bitree&& other)
bitree_move(m, fake, other) ==
    update_child([m EXCEPT ![fake] = m[other], ![other] = p_node], fake, "left")

\* bitree::operator=(bitree&& other)
bitree_move_assign(m, fake, other) ==
    IF fake # other
    THEN update_child([m EXCEPT ![fake] = m[other], ![other] = p_node], fake, "left")
    ELSE m

\* pair_count = other.pair_count; other.pair_count = 0;
take_count(pc, s, other) ==
    [x \in Stores |-> IF x = other THEN 0 ELSE IF x = s THEN pc[other] ELSE pc[x]]

\* bimap(bimap&& other)
bimap_move(S, s, other) ==
    State(bitree_move(bitree_move(S.mem, LFake(s), LFake(other)), RFake(s), RFake(other)),
          S.allocated, take_count(S.pair_count, s, other))

\* bimap::operator=(bimap const& other)
copy_assign(S, s, other, prs) ==
    IF s # other THEN
        Then(insert_from(erase_all(S, s), s, other, prs), LAMBDA S2 :
             State(S2.mem, S2.allocated,
                   [S2.pair_count EXCEPT ![s] = S2.pair_count[other]]))
    ELSE S

\* bimap::operator=(bimap&& other)
move_assign(S, s, other) ==
    State(bitree_move_assign(bitree_move_assign(S.mem, LFake(s), LFake(other)),
                             RFake(s), RFake(other)),
          S.allocated, take_count(S.pair_count, s, other))

\* ~bimap(): erase_all, then the members' storage is gone
bimap_destroy(S, s) ==
    Then(erase_all(S, s), LAMBDA S1 :
         State([S1.mem EXCEPT ![LFake(s)] = FreeCell, ![RFake(s)] = FreeCell],
               S1.allocated, [S1.pair_count EXCEPT ![s] = 0]))

\* ------------------------------------------------------------ views of a state
\* The nodes linked below n, by the child links alone.
RECURSIVE Subtree(_, _)
Subtree(m, n) ==
    IF n = NULL THEN {}
    ELSE {n} \cup Subtree(m, m[n].left) \cup Subtree(m, m[n].right)

NodesOf(m, fake) == Subtree(m, m[fake].left)
LNodes(s) == NodesOf(mem, LFake(s))
RNodes(s) == NodesOf(mem, RFake(s))

\* The iterators met from `it` by ++ until `stop` (or until ++ fails), at most
\* fuel of them.
RECURSIVE WalkInc(_, _, _, _)
WalkInc(m, it, stop, fuel) ==
    IF it = stop \/ it = ABORT \/ fuel = 0 THEN <<it>>
    ELSE <<it>> \o WalkInc(m, Inc(m, it), stop, fuel - 1)

\* The iterators met from `it` by -- until `stop` (or until -- fails).
RECURSIVE WalkDec(_, _, _, _)
WalkDec(m, it, stop, fuel) ==
    IF it = stop \/ it = ABORT \/ fuel = 0 THEN <<it>>
    ELSE <<it>> \o WalkDec(m, Dec(m, it), stop, fuel - 1)

Fuel == Cardinality(Addrs)

\* begin(), ++begin(), ..., end() of a tree
Forward(m, fake) == WalkInc(m, begin(m, fake), end(fake), Fuel)

\* [first, lst) is a range of the tree: lst is reached from first by ++
IsRange(m, fake, first, lst) ==
    LET w == Forward(m, fake)
    IN \E i \in 1..Len(w) : \E j \in i..Len(w) : w[i] = first /\ w[j] = lst

Cur == State(mem, allocated, pair_count)

FreeRecs(S) == Cardinality(RecAddrs \ S.allocated)

\* ------------------------------------------------------------ actions
Op(name, s, a, b, ret) == [op |-> name, s |-> s, a |-> a, b |-> b, ret |-> ret]

Commit(S) ==
    /\ mem' = S.mem
    /\ allocated' = S.allocated
    /\ pair_count' = S.pair_count

Init ==
    /\ mem = [a \in Addrs |-> IF a \in {LFake(1), RFake(1)} THEN p_node ELSE FreeCell]
    /\ constructed = {1}
    /\ allocated = {}
    /\ pair_count = [s \in Stores |-> 0]
    /\ last = Op("bimap", 1, NULL, NULL, NULL)

Insert(s, l, r, pl, pr) ==
    /\ s \in constructed
    /\ FreeRecs(Cur) > 0
    /\ \E res \in {insert(Cur, s, l, r, pl, pr)} :
          /\ Commit(res.S)
          /\ last' = Op("insert", s, l, r, res.ret)
    /\ UNCHANGED constructed

EraseLeft(s, it) ==
    /\ s \in constructed
    /\ it \in LNodes(s)
    /\ \E res \in {erase_left(Cur, s, it)} :
          /\ Commit(res.S)
          /\ last' = Op("erase_left", s, it, NULL, res.ret)
    /\ UNCHANGED constructed

EraseRight(s, it) ==
    /\ s \in constructed
    /\ it \in RNodes(s)
    /\ \E res \in {erase_right(Cur, s, it)} :
          /\ Commit(res.S)
          /\ last' = Op("erase_right", s, it, NULL, res.ret)
    /\ UNCHANGED constructed

EraseLeftKey(s, key) ==
    /\ s \in constructed
    /\ \E res \in {erase_left_key(Cur, s, key)} :
          /\ Commit(res.S)
          /\ last' = Op("erase_left_key", s, key, NULL, res.ret)
    /\ UNCHANGED constructed

EraseRightKey(s, key) ==
    /\ s \in constructed
    /\ \E res \in {erase_right_key(Cur, s, key)} :
          /\ Commit(res.S)
          /\ last' = Op("erase_right_key", s, key, NULL, res.ret)
    /\ UNCHANGED constructed

EraseLeftRange(s, first, lst) ==
    /\ s \in constructed
    /\ IsRange(mem, LFake(s), first, lst)
    /\ \E res \in {erase_left_range(Cur, s, first, lst)} :
          /\ Commit(res.S)
          /\ last' = Op("erase_left_range", s, first, lst, res.ret)
    /\ UNCHANGED constructed

EraseRightRange(s, first, lst) ==
    /\ s \in constructed
    /\ IsRange(mem, RFake(s), first, lst)
    /\ \E res \in {erase_right_range(Cur, s, first, lst)} :
          /\ Commit(res.S)
          /\ last' = Op("erase_right_range", s, first, lst, res.ret)
    /\ UNCHANGED constructed

EraseAll(s) ==
    /\ s \in constructed
    /\ Commit(erase_all(Cur, s))
    /\ last' = Op("erase_all", s, NULL, NULL, NULL)
    /\ UNCHANGED constructed

AtLeft(s, key) ==
    /\ s \in constructed
    /\ last' = Op("at_left", s, key, NULL, at_left(Cur, s, key))
    /\ UNCHANGED <<mem, allocated, pair_count, constructed>>

AtRight(s, key) ==
    /\ s \in constructed
    /\ last' = Op("at_right", s, key, NULL, at_right(Cur, s, key))
    /\ UNCHANGED <<mem, allocated, pair_count, constructed>>

AtLeftOrDefault(s, key, pl, pr) ==
    /\ s \in constructed
    /\ FreeRecs(Cur) > 0
    /\ \E res \in {at_left_or_default(Cur, s, key, pl, pr)} :
          /\ Commit(res.S)
          /\ last' = Op("at_left_or_default", s, key, NULL, res.ret)
    /\ UNCHANGED constructed

AtRightOrDefault(s, key, pl, pr) ==
    /\ s \in constructed
    /\ FreeRecs(Cur) > 0
    /\ \E res \in {at_right_or_default(Cur, s, key, pl, pr)} :
          /\ Commit(res.S)
          /\ last' = Op("at_right_or_default", s, key, NULL, res.ret)
    /\ UNCHANGED constructed

Empty(s) ==
    /\ s \in constructed
    /\ last' = Op("empty", s, NULL, NULL, empty(Cur, s))
    /\ UNCHANGED <<mem, allocated, pair_count, constructed>>

LowerBoundLeft(s, key) ==
    /\ s \in constructed
    /\ last' = Op("lower_bound_left", s, key, NULL, lower_bound_left(Cur, s, key))
    /\ UNCHANGED <<mem, allocated, pair_count, constructed>>

UpperBoundLeft(s, key) ==
    /\ s \in constructed
    /\ last' = Op("upper_bound_left", s, key, NULL, upper_bound_left(Cur, s, key))
    /\ UNCHANGED <<mem, allocated, pair_count, constructed>>

LowerBoundRight(s, key) ==
    /\ s \in constructed
    /\ last' = Op("lower_bound_right", s, key, NULL, lower_bound_right(Cur, s, key))
    /\ UNCHANGED <<mem, allocated, pair_count, constructed>>

UpperBoundRight(s, key) ==
    /\ s \in constructed
    /\ last' = Op("upper_bound_right", s, key, NULL, upper_bound_right(Cur, s, key))
    /\ UNCHANGED <<mem, allocated, pair_count, constructed>>

\* a == b
Equal(a, b) ==
    /\ a \in constructed
    /\ b \in constructed
    /\ last' = Op("==", a, b, NULL, equal(Cur, a, b))
    /\ UNCHANGED <<mem, allocated, pair_count, constructed>>

\* a != b
NotEqual(a, b) ==
    /\ a \in constructed
    /\ b \in constructed
    /\ last' = Op("!=", a, b, NULL, not_equal(Cur, a, b))
    /\ UNCHANGED <<mem, allocated, pair_count, constructed>>

\* bimap b;
Construct(s) ==
    /\ s \notin constructed
    /\ Commit(bimap_default(Cur, s))
    /\ constructed' = constructed \cup {s}
    /\ last' = Op("bimap", s, NULL, NULL, NULL)

\* bimap b(a);
CopyConstruct(s, other, prs) ==
    /\ s \notin constructed
    /\ other \in constructed
    /\ pair_count[other] >= 0 /\ pair_count[other] <= MaxCount
    /\ Len(prs) = Cardinality(LNodes(other))
    /\ FreeRecs(Cur) >= Len(prs)
    /\ Commit(bimap_copy(Cur, s, other, prs))
    /\ constructed' = constructed \cup {s}
    /\ last' = Op("bimap_copy", s, other, NULL, NULL)

\* bimap b(std::move(a));
MoveConstruct(s, other) ==
    /\ s \notin constructed
    /\ other \in constructed
    /\ Commit(bimap_move(Cur, s, other))
    /\ constructed' = constructed \cup {s}
    /\ last' = Op("bimap_move", s, other, NULL, NULL)

\* b = a;
CopyAssign(s, other, prs) ==
    /\ s \in constructed
    /\ other \in constructed
    /\ Len(prs) = (IF s = other THEN 0 ELSE Cardinality(LNodes(other)))
    /\ FreeRecs(erase_all(Cur, s)) >= Len(prs)
    /\ Commit(copy_assign(Cur, s, other, prs))
    /\ last' = Op("copy_assign", s, other, NULL, NULL)
    /\ UNCHANGED constructed

\* b = std::move(a);
MoveAssign(s, other) ==
    /\ s \in constructed
    /\ other \in constructed
    /\ Commit(move_assign(Cur, s, other))
    /\ last' = Op("move_assign", s, other, NULL, NULL)
    /\ UNCHANGED constructed

\* the end of b's lifetime
Destroy(s) ==
    /\ s \in constructed
    /\ Commit(bimap_destroy(Cur, s))
    /\ constructed' = constructed \ {s}
    /\ last' = Op("~bimap", s, NULL, NULL, NULL)

\* The operations on the elements of a bimap, with keys from K and priorities from P.
ElementOps(K, P) ==
    \/ \E s \in constructed, l \in K, r \in K, pl \in P, pr \in P : Insert(s, l, r, pl, pr)
    \/ \E s \in constructed : \E it \in LNodes(s) : EraseLeft(s, it)
    \/ \E s \in constructed : \E it \in RNodes(s) : EraseRight(s, it)
    \/ \E s \in constructed, key \in K : EraseLeftKey(s, key)
    \/ \E s \in constructed, key \in K : EraseRightKey(s, key)
    \/ \E s \in constructed : \E first, lst \in LNodes(s) \cup {end_left(s)} :
          EraseLeftRange(s, first, lst)
    \/ \E s \in constructed : \E first, lst \in RNodes(s) \cup {end_right(s)} :
          EraseRightRange(s, first, lst)
    \/ \E s \in constructed : EraseAll(s)
    \/ \E s \in constructed, key \in K : AtLeft(s, key)
    \/ \E s \in constructed, key \in K : AtRight(s, key)
    \/ \E s \in constructed, key \in K, pl \in P, pr \in P : AtLeftOrDefault(s, key, pl, pr)
    \/ \E s \in constructed, key \in K, pl \in P, pr \in P : AtRightOrDefault(s, key, pl, pr)
    \/ \E s \in constructed : Empty(s)
    \/ \E s \in constructed, key \in K : LowerBoundLeft(s, key)
    \/ \E s \in constructed, key \in K : UpperBoundLeft(s, key)
    \/ \E s \in constructed, key \in K : LowerBoundRight(s, key)
    \/ \E s \in constructed, key \in K : UpperBoundRight(s, key)

\* Construction, copy, move and destruction of bimaps.
ObjectOps(P) ==
    \/ \E s \in Stores : Construct(s)
    \/ \E s \in Stores, other \in constructed :
          \E prs \in [1..Cardinality(LNodes(other)) -> P \X P] : CopyConstruct(s, other, prs)
    \/ \E s \in Stores, other \in Stores : MoveConstruct(s, other)
    \/ \E s \in constructed, other \in constructed :
          \E prs \in [1..(IF s = other THEN 0 ELSE Cardinality(LNodes(other))) -> P \X P] :
             CopyAssign(s, other, prs)
    \/ \E s \in Stores, other \in Stores : MoveAssign(s, other)
    \/ \E s \in Stores : Destroy(s)
    \/ \E a \in constructed, b \in constructed : Equal(a, b)
    \/ \E a \in constructed, b \in constructed : NotEqual(a, b)

\* The caller has taken the result of the call that returned: no call is in `last`.
Idle == Op("idle", NULL, NULL, NULL, NULL)

\* The caller takes the result; calls are made one at a time.
Return ==
    /\ last # Idle
    /\ last' = Idle
    /\ UNCHANGED <<mem, constructed, allocated, pair_count>>

\* One bimap and the operations on its elements.
Next ==
    \/ last = Idle /\ ElementOps(Keys, Priorities)
    \/ Return

Spec == Init /\ [][Next]_vars

\* Inserts and erases by iterator, the operations that change the shape of a tree.
TreeOps(K, P) ==
    \/ \E s \in constructed, l \in K, r \in K, pl \in P, pr \in P : Insert(s, l, r, pl, pr)
    \/ \E s \in constructed : \E it \in LNodes(s) : EraseLeft(s, it)
    \/ \E s \in constructed : \E it \in RNodes(s) : EraseRight(s, it)

\* One bimap under inserts and erases, with priorities enough for three nodes of
\* pairwise distinct priority.
NextShape ==
    \/ last = Idle /\ TreeOps(Keys, PrioritiesD)
    \/ Return

SpecShape == Init /\ [][NextShape]_vars

\* Several bimaps: the element operations and construction, copy, move, destruction.
NextStores ==
    \/ last = Idle /\ ElementOps(KeysS, PrioritiesS) /\ Cardinality(allocated') <= MaxLive
    \/ last = Idle /\ ObjectOps(PrioritiesS) /\ Cardinality(allocated') <= MaxLive
    \/ Return

SpecStores == Init /\ [][NextStores]_vars

\* ------------------------------------------------------------ reference views
\* What the claims speak of, read off the memory without the operations under test.

\* The node_t record whose storage holds address p (NULL for a fake_node).
RecordOf(p) ==
    IF \E a \in RecAddrs : a <= p /\ p < a + RecSize
    THEN CHOOSE a \in RecAddrs : a <= p /\ p < a + RecSize
    ELSE NULL

LRecs(m, s) == {RecordOf(n) : n \in NodesOf(m, LFake(s))}
RRecs(m, s) == {RecordOf(n) : n \in NodesOf(m, RFake(s))}

\* The pairs (l, r) stored in s: the keys of an L-tree node and an R-tree node of
\* one record.
StoredPairs(m, s) ==
    {<<m[nk[1]].key, m[nk[2]].key>> :
        nk \in {x \in NodesOf(m, LFake(s)) \X NodesOf(m, RFake(s)) :
                   RecordOf(x[1]) = RecordOf(x[2])}}

KeysOf(m, fake) == {m[n].key : n \in NodesOf(m, fake)}

\* The node with the least key greater than n's, or end().
SuccByKey(m, fake, n) ==
    LET g == {x \in NodesOf(m, fake) : m[n].key < m[x].key}
    IN IF g = {} THEN fake ELSE CHOOSE x \in g : \A y \in g : m[x].key <= m[y].key

\* The node with the greatest key less than n's (any key is less than end()'s
\* position), or ABORT when there is none.
PredByKey(m, fake, n) ==
    LET g == IF n = fake THEN NodesOf(m, fake)
             ELSE {x \in NodesOf(m, fake) : m[x].key < m[n].key}
    IN IF g = {} THEN ABORT ELSE CHOOSE x \in g : \A y \in g : m[y].key <= m[x].key

\* size() as a natural number grew / shrank by exactly one (pair_count is held in
\* its signed reading: -1 is 2^32 - 1).
GrewByOne(old, new) == old # -1 /\ new = U32Inc(old)
ShrankByOne(old, new) == old # 0 /\ new = U32Dec(old)

Reverse(w) == [i \in 1..Len(w) |-> w[Len(w) + 1 - i]]

Fakes(s) == {LFake(s), RFake(s)}

\* ------------------------------------------------------------ C1
\* C1: in every reachable state size() equals the number of nodes in the L-tree
\* and the number of nodes in the R-tree.
C1_SizeIsNodeCount ==
    \A s \in constructed :
        /\ size(Cur, s) = Cardinality(LNodes(s))
        /\ size(Cur, s) = Cardinality(RNodes(s))

\* ------------------------------------------------------------ C2
\* C2: in every reachable state the L-tree and the R-tree of a bimap hold exactly
\* the same records, all of them live, and no two records share an L key or an
\* R key.
C2_Bijection ==
    \A s \in constructed :
        /\ LRecs(mem, s) = RRecs(mem, s)
        /\ LRecs(mem, s) \subseteq allocated
        /\ \A n \in LNodes(s) : RecordOf(n) + OffLeft = n
        /\ \A n \in RNodes(s) : RecordOf(n) + OffRight = n
        /\ \A x, y \in LNodes(s) : x # y => mem[x].key # mem[y].key
        /\ \A x, y \in RNodes(s) : x # y => mem[x].key # mem[y].key
        /\ Cardinality(StoredPairs(mem, s)) = Cardinality(LRecs(mem, s))

\* A bimap holds two pairs whose records it took over from another bimap by a
\* move assignment.
C2_Witness ==
    /\ last.op = "move_assign"
    /\ last.s # last.a
    /\ Cardinality(StoredPairs(mem, last.s)) = 2

\* ------------------------------------------------------------ C3
\* C3: for each tree, ++ from begin() visits every node exactly once in strictly
\* increasing key order and then reaches end(); -- from end() visits the same
\* nodes in the reverse order; begin() = end() exactly when the tree is empty.
TraversalOk(m, fake) ==
    LET w == Forward(m, fake)
        b == WalkDec(m, end(fake), begin(m, fake), Fuel)
        n == Len(w) - 1
    IN /\ w[Len(w)] = end(fake)
       /\ {w[i] : i \in 1..n} = NodesOf(m, fake)
       /\ n = Cardinality(NodesOf(m, fake))
       /\ \A i \in 1..(n - 1) : cmp(m[w[i]].key, m[w[i + 1]].key)
       /\ b = Reverse(w)
       /\ (begin(m, fake) = end(fake)) <=> (NodesOf(m, fake) = {})

C3_Traversal == \A s \in constructed : \A fake \in Fakes(s) : TraversalOk(mem, fake)

\* A bimap of three pairs whose L-tree root has two children and whose R-tree root
\* has one child.
C3_Witness ==
    \E s \in constructed :
        LET rl == mem[LFake(s)].left
            rr == mem[RFake(s)].left
        IN /\ Cardinality(LNodes(s)) = 3
           /\ mem[rl].left # NULL /\ mem[rl].right # NULL
           /\ (mem[rr].left = NULL \/ mem[rr].right = NULL)

\* ------------------------------------------------------------ C4
\* C4: insert(l, r) with l already an L key or r already an R key returns
\* end_left() and changes neither size(), nor the memory (pairs and links), nor
\* the set of allocated records.
C4_InsertRejected ==
    [][(/\ last'.op = "insert"
        /\ \/ last'.a \in KeysOf(mem, LFake(last'.s))
           \/ last'.b \in KeysOf(mem, RFake(last'.s)))
       => /\ last'.ret = end_left(last'.s)
          /\ mem' = mem
          /\ allocated' = allocated
          /\ pair_count' = pair_count]_vars

\* An insert was rejected whose l belongs to one stored pair and whose r to another.
C4_Witness ==
    /\ last.op = "insert"
    /\ last.ret = end_left(last.s)
    /\ \E p, q \in StoredPairs(mem, last.s) :
          p # q /\ p[1] = last.a /\ q[2] = last.b

\* ------------------------------------------------------------ C5
\* C5: insert(l, r) with l not an L key and r not an R key adds exactly (l, r):
\* size() grows by one, the result is not end_left(), dereferences to l, its
\* flip() to r, find_left(l) and find_right(r) find that record, and the pairs
\* stored before are all still stored.
C5_InsertAdds ==
    [][(/\ last'.op = "insert"
        /\ last'.a \notin KeysOf(mem, LFake(last'.s))
        /\ last'.b \notin KeysOf(mem, RFake(last'.s)))
       => LET s == last'.s
              S2 == State(mem', allocated', pair_count')
          IN /\ GrewByOne(pair_count[s], pair_count'[s])
             /\ last'.ret # end_left(s)
             /\ deref(mem', last'.ret) = last'.a
             /\ deref(mem', flip_left(mem', last'.ret)) = last'.b
             /\ find_left(S2, s, last'.a) = last'.ret
             /\ find_right(S2, s, last'.b) = flip_left(mem', last'.ret)
             /\ RecordOf(find_right(S2, s, last'.b)) = RecordOf(last'.ret)
             /\ StoredPairs(mem', s) = StoredPairs(mem, s) \cup {<<last'.a, last'.b>>}]_vars

\* ------------------------------------------------------------ C6
\* C6: after erase_left(it) / erase_right(it) of the pair (l, r), l is no L key
\* and r no R key (find gives end), size() has decreased by exactly one and the
\* other pairs are stored as before.
ErasedPair(m, s, op, it) ==
    CHOOSE p \in StoredPairs(m, s) : IF op = "erase_left" THEN p[1] = m[it].key
                                     ELSE p[2] = m[it].key

C6_EraseRemoves ==
    [][(last'.op \in {"erase_left", "erase_right"})
       => LET s == last'.s
              p == ErasedPair(mem, s, last'.op, last'.a)
              S2 == State(mem', allocated', pair_count')
          IN /\ find_left(S2, s, p[1]) = end_left(s)
             /\ find_right(S2, s, p[2]) = end_right(s)
             /\ ShrankByOne(pair_count[s], pair_count'[s])
             /\ StoredPairs(mem', s) = StoredPairs(mem, s) \ {p}]_vars

\* ------------------------------------------------------------ C7
\* C7: erase_left(it) / erase_right(it) returns the iterator to the node that
\* followed the erased one in key order before the erase, end() if the erased key
\* was the largest; that node is still linked afterwards.
C7_EraseReturnsSuccessor ==
    [][/\ last'.op = "erase_left" =>
            /\ last'.ret = SuccByKey(mem, LFake(last'.s), last'.a)
            /\ last'.ret \in NodesOf(mem', LFake(last'.s)) \cup {end_left(last'.s)}
       /\ last'.op = "erase_right" =>
            /\ last'.ret = SuccByKey(mem, RFake(last'.s), last'.a)
            /\ last'.ret \in NodesOf(mem', RFake(last'.s)) \cup {end_right(last'.s)}]_vars

\* An erase_left returned an iterator to a node that is not the root after it.
C7_Witness ==
    /\ last.op = "erase_left"
    /\ last.ret \in LNodes(last.s)
    /\ mem[last.ret].parent # LFake(last.s)

\* ------------------------------------------------------------ C8
\* C8: erase_left(it) / erase_right(it) leaves every iterator to another pair, on
\* either side, and both end iterators referring to the same element, and ++ / --
\* on them give that element's neighbours in key order in the tree after the erase.
IteratorOk(m, fake, n) ==
    /\ n # fake => Inc(m, n) = SuccByKey(m, fake, n)
    /\ PredByKey(m, fake, n) # ABORT => Dec(m, n) = PredByKey(m, fake, n)

C8_OtherIteratorsValid ==
    [][(last'.op \in {"erase_left", "erase_right"})
       => \A s \in constructed : \A fake \in Fakes(s) :
            /\ \A n \in NodesOf(mem, fake) :
                  RecordOf(n) # RecordOf(last'.a)
                  => /\ n \in NodesOf(mem', fake)
                     /\ mem'[n].key = mem[n].key
                     /\ IteratorOk(mem', fake, n)
            /\ IteratorOk(mem', fake, end(fake))]_vars

\* An erase left two pairs stored and returned an iterator to a node that has a
\* left child after it.
C8_Witness ==
    /\ last.op \in {"erase_left", "erase_right"}
    /\ Cardinality(LNodes(last.s)) = 2
    /\ last.ret \in LNodes(last.s) \cup RNodes(last.s)
    /\ mem[last.ret].left # NULL

\* ------------------------------------------------------------ C9
\* C9: for every iterator to an element, flip() is the iterator to the other-side
\* element of the same record and flip().flip() is the iterator itself; for every
\* stored pair (l, r), find_left(l).flip() = find_right(r) and conversely.
C9_Flip ==
    \A s \in constructed :
        /\ \A n \in LNodes(s) :
              /\ flip_left(mem, n) \in RNodes(s)
              /\ RecordOf(flip_left(mem, n)) = RecordOf(n)
              /\ flip_right(mem, flip_left(mem, n)) = n
        /\ \A n \in RNodes(s) :
              /\ flip_right(mem, n) \in LNodes(s)
              /\ RecordOf(flip_right(mem, n)) = RecordOf(n)
              /\ flip_left(mem, flip_right(mem, n)) = n
        /\ \A p \in StoredPairs(mem, s) :
              /\ flip_left(mem, find_left(Cur, s, p[1])) = find_right(Cur, s, p[2])
              /\ flip_right(mem, find_right(Cur, s, p[2])) = find_left(Cur, s, p[1])

\* Three pairs are stored and the L order of the records is not their R order.
C9_Witness ==
    \E s \in constructed :
        /\ Cardinality(StoredPairs(mem, s)) = 3
        /\ \E p, q \in StoredPairs(mem, s) : p[1] < q[1] /\ q[2] < p[2]

\* ------------------------------------------------------------ C10
\* C10: at_left(key) returns the R value paired with key when key is an L key and
\* throws std::out_of_range otherwise (never a default value); at_right likewise;
\* the bimap is unchanged either way.
C10_At ==
    [][/\ last'.op = "at_left" =>
            /\ \A p \in StoredPairs(mem, last'.s) : p[1] = last'.a => last'.ret = p[2]
            /\ last'.a \notin KeysOf(mem, LFake(last'.s)) => last'.ret = OutOfRange
            /\ UNCHANGED <<mem, allocated, pair_count>>
       /\ last'.op = "at_right" =>
            /\ \A p \in StoredPairs(mem, last'.s) : p[2] = last'.a => last'.ret = p[1]
            /\ last'.a \notin KeysOf(mem, RFake(last'.s)) => last'.ret = OutOfRange
            /\ UNCHANGED <<mem, allocated, pair_count>>]_vars

\* at_left threw for a key that is no L key of a bimap that stores the default R
\* value.
C10_Witness ==
    /\ last.op = "at_left"
    /\ last.ret = OutOfRange
    /\ DefaultKey \in KeysOf(mem, RFake(last.s))

\* ------------------------------------------------------------ C11
\* C11: at_left_or_default(key) returns the paired R value and changes nothing when
\* key is an L key; otherwise it removes the pair holding the default R value (if
\* any), stores (key, default) and returns the default value: the evicted L key is
\* no longer found, the other pairs are as before, and size() is unchanged after
\* an eviction and one larger otherwise.  at_right_or_default is the mirror image.
C11_AtOrDefault ==
    [][/\ last'.op = "at_left_or_default" =>
            LET s == last'.s
                key == last'.a
                P == StoredPairs(mem, s)
                evicted == {p \in P : p[2] = DefaultKey}
                S2 == State(mem', allocated', pair_count')
            IN IF key \in KeysOf(mem, LFake(s))
               THEN /\ \A p \in P : p[1] = key => last'.ret = p[2]
                    /\ UNCHANGED <<mem, allocated, pair_count>>
               ELSE /\ last'.ret = DefaultKey
                    /\ StoredPairs(mem', s) = (P \ evicted) \cup {<<key, DefaultKey>>}
                    /\ \A p \in evicted : find_left(S2, s, p[1]) = end_left(s)
                    /\ IF evicted # {} THEN pair_count'[s] = pair_count[s]
                       ELSE GrewByOne(pair_count[s], pair_count'[s])
       /\ last'.op = "at_right_or_default" =>
            LET s == last'.s
                key == last'.a
                P == StoredPairs(mem, s)
                evicted == {p \in P : p[1] = DefaultKey}
                S2 == State(mem', allocated', pair_count')
            IN IF key \in KeysOf(mem, RFake(s))
               THEN /\ \A p \in P : p[2] = key => last'.ret = p[1]
                    /\ UNCHANGED <<mem, allocated, pair_count>>
               ELSE /\ last'.ret = DefaultKey
                    /\ StoredPairs(mem', s) = (P \ evicted) \cup {<<DefaultKey, key>>}
                    /\ \A p \in evicted : find_right(S2, s, p[2]) = end_right(s)
                    /\ IF evicted # {} THEN pair_count'[s] = pair_count[s]
                       ELSE GrewByOne(pair_count[s], pair_count'[s])]_vars

\* ------------------------------------------------------------ C12
\* C12: a == b is true exactly when a and b hold the same number of pairs and
\* their sequences of (L, R) pairs in L-order are the same position by position,
\* whatever the shapes of the trees; a != b is the negation.
PairsInLOrder(m, s) ==
    LET P == StoredPairs(m, s)
    IN CHOOSE w \in [1..Cardinality(P) -> P] :
           \A i \in 1..(Cardinality(P) - 1) : w[i][1] < w[i + 1][1]

SamePairs(m, a, b) ==
    /\ Cardinality(StoredPairs(m, a)) = Cardinality(StoredPairs(m, b))
    /\ PairsInLOrder(m, a) = PairsInLOrder(m, b)

C12_Equality ==
    [][/\ last'.op = "==" => (last'.ret <=> SamePairs(mem, last'.s, last'.a))
       /\ last'.op = "!=" => (last'.ret <=> ~SamePairs(mem, last'.s, last'.a))]_vars

\* ------------------------------------------------------------ C13
\* C13: copy construction and copy assignment from another bimap leave the target
\* with exactly the source's pairs in records of its own, target.size() =
\* src.size() and target == src; the source is unchanged, and erasing from either
\* afterwards leaves the other's pairs alone; copy assignment to itself changes
\* nothing.
SourceUnchanged(a) ==
    /\ \A n \in Fakes(a) \cup LNodes(a) \cup RNodes(a) : mem'[n] = mem[n]
    /\ pair_count'[a] = pair_count[a]

C13_DeepCopy ==
    [][(last'.op \in {"bimap_copy", "copy_assign"})
       => LET s == last'.s
              a == last'.a
              S2 == State(mem', allocated', pair_count')
          IN IF s = a THEN UNCHANGED <<mem, allocated, pair_count>>
             ELSE /\ StoredPairs(mem', s) = StoredPairs(mem, a)
                  /\ LRecs(mem', s) \cap LRecs(mem', a) = {}
                  /\ LRecs(mem', s) \subseteq allocated'
                  /\ size(S2, s) = size(S2, a)
                  /\ equal(S2, s, a)
                  /\ SourceUnchanged(a)
                  /\ \A it \in NodesOf(mem', LFake(s)) :
                        StoredPairs(erase_left(S2, s, it).S.mem, a) = StoredPairs(mem, a)
                  /\ \A it \in NodesOf(mem', LFake(a)) :
                        StoredPairs(erase_left(S2, a, it).S.mem, s) = StoredPairs(mem', s)]_vars

\* ------------------------------------------------------------ C14
\* C14: move construction and move assignment from another bimap leave the target
\* with exactly the pairs, the records and the size() the source had, each root's
\* parent link at the target's own sentinel so that traversal of the target works;
\* the source is a valid empty bimap: size() = 0, begin = end on both sides, and
\* an insert into it succeeds.
EmptyAndUsable(S, a) ==
    /\ size(S, a) = 0
    /\ begin_left(S, a) = end_left(a)
    /\ begin_right(S, a) = end_right(a)
    /\ S.mem[LFake(a)] = p_node
    /\ S.mem[RFake(a)] = p_node
    /\ FreeRecs(S) > 0 =>
          \A k \in KeysS :
             LET r == insert(S, a, k, k, 0, 0)
             IN /\ r.ret # end_left(a)
                /\ StoredPairs(r.S.mem, a) = {<<k, k>>}
                /\ size(r.S, a) = 1

C14_Move ==
    [][(last'.op \in {"bimap_move", "move_assign"} /\ last'.s # last'.a)
       => LET s == last'.s
              a == last'.a
              S2 == State(mem', allocated', pair_count')
          IN /\ StoredPairs(mem', s) = StoredPairs(mem, a)
             /\ NodesOf(mem', LFake(s)) = NodesOf(mem, LFake(a))
             /\ NodesOf(mem', RFake(s)) = NodesOf(mem, RFake(a))
             /\ size(S2, s) = pair_count[a]
             /\ \A fake \in Fakes(s) :
                   /\ mem'[fake].left # NULL => mem'[mem'[fake].left].parent = fake
                   /\ TraversalOk(mem', fake)
             /\ EmptyAndUsable(S2, a)]_vars

\* A bimap of two pairs was moved into another bimap.
C14_Witness ==
    /\ last.op \in {"bimap_move", "move_assign"}
    /\ last.s # last.a
    /\ Cardinality(StoredPairs(mem, last.s)) = 2
    /\ mem[LFake(last.a)].left = NULL

\* ------------------------------------------------------------ C15
\* C15: every record created by an insert is destroyed exactly once and only
\* after it is unlinked from both trees: after every operation the live records
\* are exactly the records linked in some existing bimap (none leaked, none
\* linked after being freed), a record freed by the operation is linked nowhere
\* afterwards, and after erase_all or destruction both trees of that bimap are
\* empty and its records are freed.
Owned(m, cs) == UNION {LRecs(m, s) \cup RRecs(m, s) : s \in cs}

C15_Ownership ==
    [][/\ allocated' = Owned(mem', constructed')
       /\ (allocated \ allocated') \cap Owned(mem', constructed') = {}
       /\ last'.op \in {"erase_all", "~bimap"} =>
             /\ mem'[LFake(last'.s)].left = NULL
             /\ mem'[RFake(last'.s)].left = NULL
             /\ LRecs(mem, last'.s) \cap allocated' = {}]_vars

\* ------------------------------------------------------------ C16
\* C16: erase_left(first, last), with last reached from first by ++, removes
\* exactly the pairs whose L elements lie in [first, last) and frees their
\* records, keeps every other pair, decreases size() by the length of the range
\* and returns last, which still refers to the same element (or is end) with its
\* neighbours in key order; an empty range changes nothing.  erase_right(first,
\* last) is the same in R-order.
RangeNodes(m, first, lst) ==
    LET w == WalkInc(m, first, lst, Fuel) IN {w[i] : i \in 1..(Len(w) - 1)}

RECURSIVE U32Sub(_, _)
U32Sub(x, n) == IF n = 0 THEN x ELSE U32Sub(U32Dec(x), n - 1)

\* size() as a natural number shrank by exactly n
ShrankBy(old, new, n) == old \notin 0..(n - 1) /\ new = U32Sub(old, n)

RangeErased(fake, side) ==
    LET s == last'.s
        first == last'.a
        lst == last'.b
        R == RangeNodes(mem, first, lst)
        gone == {p \in StoredPairs(mem, s) : \E n \in R : p[side] = mem[n].key}
    IN /\ last'.ret = lst
       /\ StoredPairs(mem', s) = StoredPairs(mem, s) \ gone
       /\ Cardinality(gone) = Cardinality(R)
       /\ allocated' = allocated \ {RecordOf(n) : n \in R}
       /\ ShrankBy(pair_count[s], pair_count'[s], Cardinality(R))
       /\ lst # fake => /\ lst \in NodesOf(mem', fake)
                        /\ mem'[lst].key = mem[lst].key
       /\ IteratorOk(mem', fake, lst)
       /\ first = lst => UNCHANGED <<mem, allocated, pair_count>>

C16_RangeErase ==
    [][/\ last'.op = "erase_left_range" => RangeErased(LFake(last'.s), 1)
       /\ last'.op = "erase_right_range" => RangeErased(RFake(last'.s), 2)]_vars

\* ------------------------------------------------------------ C17
\* C17: for every key x, stored or not, lower_bound(x) is the iterator to the
\* smallest stored key not less than x and upper_bound(x) the iterator to the
\* smallest stored key greater than x, each end() when no stored key qualifies,
\* on either side; the bimap is unchanged.
LeastOf(m, fake, g) ==
    IF g = {} THEN end(fake) ELSE CHOOSE n \in g : \A y \in g : m[n].key <= m[y].key

FirstNotLess(m, fake, x) == LeastOf(m, fake, {n \in NodesOf(m, fake) : m[n].key >= x})
FirstGreater(m, fake, x) == LeastOf(m, fake, {n \in NodesOf(m, fake) : m[n].key > x})

C17_Bounds ==
    [][(last'.op \in {"lower_bound_left", "upper_bound_left",
                      "lower_bound_right", "upper_bound_right"})
       => /\ last'.op = "lower_bound_left"
                => last'.ret = FirstNotLess(mem, LFake(last'.s), last'.a)
          /\ last'.op = "upper_bound_left"
                => last'.ret = FirstGreater(mem, LFake(last'.s), last'.a)
          /\ last'.op = "lower_bound_right"
                => last'.ret = FirstNotLess(mem, RFake(last'.s), last'.a)
          /\ last'.op = "upper_bound_right"
                => last'.ret = FirstGreater(mem, RFake(last'.s), last'.a)
          /\ UNCHANGED <<mem, allocated, pair_count>>]_vars

\* lower_bound_left of a key that is not stored, between two stored L keys, gave
\* the iterator to the greater one.
C17_Witness ==
    /\ last.op = "lower_bound_left"
    /\ last.a \notin KeysOf(mem, LFake(last.s))
    /\ last.ret \in LNodes(last.s)
    /\ mem[last.ret].key > last.a
    /\ \E n \in LNodes(last.s) : mem[n].key < last.a

\* ------------------------------------------------------------ C18
\* C18: in every reachable state, for priorities that may be equal, each tree is
\* a treap: every key in a node's left subtree is less than the node's key, every
\* key in its right subtree is greater, and no child has a priority greater than
\* its parent's.
TreapOk(m, fake) ==
    \A n \in NodesOf(m, fake) :
        /\ \A x \in Subtree(m, m[n].left) : cmp(m[x].key, m[n].key)
        /\ \A x \in Subtree(m, m[n].right) : cmp(m[n].key, m[x].key)
        /\ m[n].left # NULL => m[n].pr >= m[m[n].left].pr
        /\ m[n].right # NULL => m[n].pr >= m[m[n].right].pr

C18_Treap == \A s \in constructed : \A fake \in Fakes(s) : TreapOk(mem, fake)

\* An erase left two pairs: in the L-tree the root and its child have the same
\* priority, in the R-tree the root's priority is greater than its child's.
C18_Witness ==
    /\ last.op \in {"erase_left", "erase_right"}
    /\ Cardinality(LNodes(last.s)) = 2
    /\ LET lroot == mem[LFake(last.s)].left
           rroot == mem[RFake(last.s)].left
       IN /\ \E c \in LNodes(last.s) \ {lroot} : mem[c].pr = mem[lroot].pr
          /\ \E c \in RNodes(last.s) \ {rroot} : mem[c].pr < mem[rroot].pr

\* ------------------------------------------------------------ C19
\* C19: in every reachable state the links of each tree are consistent: the
\* sentinel's right and parent links are null, the root is the sentinel's left
\* child with the sentinel as parent, every linked node's parent is the node that
\* holds it as its left or right child, and the child links form a tree (no
\* cycle, no node reached by two paths).
RECURSIVE Visits(_, _, _)
Visits(m, n, fuel) ==
    IF n = NULL \/ fuel = 0 THEN 0
    ELSE 1 + Visits(m, m[n].left, fuel - 1) + Visits(m, m[n].right, fuel - 1)

RECURSIVE Reached(_, _, _)
Reached(m, n, fuel) ==
    IF n = NULL \/ fuel = 0 THEN {}
    ELSE {n} \cup Reached(m, m[n].left, fuel - 1) \cup Reached(m, m[n].right, fuel - 1)

LinksOk(m, fake) ==
    LET root == m[fake].left
        nodes == Reached(m, root, Fuel + 1)
    IN /\ m[fake].right = NULL
       /\ m[fake].parent = NULL
       /\ root # NULL => m[root].parent = fake
       /\ Visits(m, root, Fuel + 1) = Cardinality(nodes)
       /\ fake \notin nodes
       /\ \A n \in nodes :
             /\ m[n].parent \in nodes \cup {fake}
             /\ (m[m[n].parent].left = n) # (m[m[n].parent].right = n)
             /\ m[n].left # NULL => m[m[n].left].parent = n
             /\ m[n].right # NULL => m[m[n].right].parent = n

C20_EndFlip ==
    \A s \in constructed :
        /\ flip_left(mem, end_left(s)) = end_right(s)
        /\ flip_right(mem, end_right(s)) = end_left(s)

\* ------------------------------------------------------------ C21
\* C21: in every reachable state the two assertions of empty() hold: the L-tree
\* is empty exactly when the R-tree is, and exactly when pair_count is 0; so an
\* empty() that was called did not abort and returned size() = 0, and pair_count
\* has not wrapped below zero.
C21_EmptyAsserts ==
    /\ \A s \in constructed :
          /\ (LNodes(s) = {}) <=> (RNodes(s) = {})
          /\ (LNodes(s) = {}) <=> (pair_count[s] = 0)
          /\ pair_count[s] >= 0
    /\ last.op = "empty" =>
          /\ ~last.ret.aborted
          /\ last.ret.value <=> (size(Cur, last.s) = 0)

\* ------------------------------------------------------------ C22
\* C22: when the priorities of the nodes of a tree are pairwise distinct, the
\* left, right and parent link of every node are determined by the set of (key,
\* priority) nodes linked, whatever the inserts and erases that led there: the
\* node of greatest priority is the root, and so on in the nodes of lesser and of
\* greater key; and inserting one more node of a new priority and erasing it again
\* gives back every link as it was.
DistinctPr(m, nodes) == \A x, y \in nodes : x # y => m[x].pr # m[y].pr

TopOf(m, nodes) ==
    IF nodes = {} THEN NULL ELSE CHOOSE n \in nodes : \A y \in nodes : m[y].pr <= m[n].pr

\* <<node, left, right, parent>> of every node in the one treap of `nodes`
RECURSIVE ShapeOf(_, _, _)
ShapeOf(m, nodes, parent) ==
    IF nodes = {} THEN {}
    ELSE LET top == TopOf(m, nodes)
             lo == {x \in nodes : m[x].key < m[top].key}
             hi == {x \in nodes : m[x].key > m[top].key}
         IN {<<top, TopOf(m, lo), TopOf(m, hi), parent>>}
            \cup ShapeOf(m, lo, top) \cup ShapeOf(m, hi, top)

LinksOf(m, fake) ==
    {<<n, m[n].left, m[n].right, m[n].parent>> : n \in NodesOf(m, fake)}

ShapeDetermined(m, fake) ==
    DistinctPr(m, NodesOf(m, fake))
    => /\ m[fake].left = TopOf(m, NodesOf(m, fake))
       /\ LinksOf(m, fake) = ShapeOf(m, NodesOf(m, fake), fake)

\* insert(l, r) with priorities pl, pr followed by the erase of the new pair
InsertThenErase(S, s, l, r, pl, pr) ==
    Then(insert(S, s, l, r, pl, pr), LAMBDA a : erase_left(a.S, s, a.ret).S)

Restored(s) ==
    (/\ FreeRecs(Cur) > 0
     /\ DistinctPr(mem, LNodes(s))
     /\ DistinctPr(mem, RNodes(s)))
    => \A l \in Keys \ KeysOf(mem, LFake(s)), r \in Keys \ KeysOf(mem, RFake(s)),
          pl \in PrioritiesD \ {mem[n].pr : n \in LNodes(s)},
          pr \in PrioritiesD \ {mem[n].pr : n \in RNodes(s)} :
            LET S2 == InsertThenErase(Cur, s, l, r, pl, pr)
            IN /\ \A n \in Fakes(s) \cup LNodes(s) \cup RNodes(s) : S2.mem[n] = mem[n]
               /\ S2.allocated = allocated

C22_ShapeDetermined ==
    \A s \in constructed :
        /\ \A fake \in Fakes(s) : ShapeDetermined(mem, fake)
        /\ Restored(s)

\* An insert put a third node between the two it found: all three priorities of
\* the L-tree differ, and the new node is below the root and above the other node.
C22_Witness ==
    /\ last.op = "insert"
    /\ Cardinality(LNodes(last.s)) = 3
    /\ DistinctPr(mem, LNodes(last.s))
    /\ DistinctPr(mem, RNodes(last.s))
    /\ last.ret \in LNodes(last.s)
    /\ mem[last.ret].parent # LFake(last.s)
    /\ (mem[last.ret].left # NULL \/ mem[last.ret].right # NULL)

====
